---- MODULE Spec2Model ----
(***************************************************************************)
(* Notes feature (server actions addNote / deleteNote, the NotesContent    *)
(* listing) and the ProfileContent page of the supanext scaffold.          *)
(*                                                                         *)
(* The store is the remote table `notes`.  Every request of the query      *)
(* builder resolves to a { data, error } result: a failure of the store is *)
(* RETURNED in `error`, it is not thrown, and the awaiting code sees it    *)
(* only if it reads the result.                                            *)
(***************************************************************************)
EXTENDS Integers, Sequences, FiniteSets, TLC

\* ---------------------------------------------------------------- bounds
NumProcs == 2      \* concurrent server-action invocations
MaxCalls == 2      \* invocations started in one behaviour
MaxTime  == 1      \* ticks of the server clock (new Date())

Procs == 1 .. NumProcs

\* ------------------------------------------------- values of the program
\* A value that may be null / undefined: <<>> is null, <<x>> is the value x.
None == <<>>
Some(x) == <<x>>

\* formData.get('title'): absent (null), the empty string, or a text.
Titles == {None, Some(""), Some("A")}
\* formData.get('description')
Descriptions == {None, Some("D")}
\* identifiers a caller can hand to deleteNote (the store assigns 1, 2, ...)
Ids == 1 .. MaxCalls

VARIABLES
    store,      \* rows of table notes: [id, title, description, created_at]
    nextId,     \* the identifier the store assigns to the next inserted row
    now,        \* server clock
    cache,      \* cached render of /notes: None (invalidated) or Some(view)
    call,       \* call[p]: the server-action invocation running in slot p
    calls,      \* invocations started so far
    ver,        \* history: number of store writes that changed the table
    doneVer,    \* history: newest write whose invocation has returned
    created,    \* history: every row ever inserted
    stats,      \* history: addNote invocations that sent an insert and returned
    last,       \* history: how the most recent invocation ended
    profile     \* ProfileContent: the request being rendered and its outcome

vars == <<store, nextId, now, cache, call, calls, ver, doneVer,
          created, stats, last, profile>>

notesVars == <<store, nextId, now, cache, call, calls, ver, doneVer,
               created, stats, last>>

\* ------------------------------------------------------------ pure parts

\* a guard that tests only for null: `title === null`
FalsyNullOnly(v) == v = None

\* JavaScript `!title` for a string-or-null value: null and '' are falsy.
Falsy(v) == v = None \/ v = Some("")

\* the row sent by insert({ title, description, created_at }), with the id
\* the store assigns
NewNote(id, title, description, createdAt) ==
    [id |-> id, title |-> title, description |-> description,
     created_at |-> createdAt]

\* an upsert keyed on the title: rows with the same title are replaced
InsertRowUpsertByTitle(rows, note) ==
    {n \in rows : n.title # note.title} \cup {note}

\* from('notes').insert(row): the table with the row added
InsertRow(rows, note) == rows \cup {note}

\* the filter inverted, .neq('id', id): only the rows whose id equals id stay
DeleteNeq(rows, id) == {n \in rows : n.id = id}

\* from('notes').delete().eq('id', id): the table without the rows whose id
\* equals id
DeleteEq(rows, id) == {n \in rows : n.id # id}

\* no invalidation: the cached render is kept
RevalidatedKeep(c) == c

\* revalidatePath('/notes'): the cached render is dropped
Revalidated(c) == None

\* the JSX NotesContent returns for the result `notes` of the select
Render(data) ==
    [data |-> data,
     cards |-> IF data = None THEN {}
               ELSE {[key |-> n.id, title |-> n.title,
                      description |-> n.description, noteId |-> n.id]
                     : n \in data[1]},
     placeholder |-> (data = None \/ Cardinality(data[1]) = 0)]

IdleCall ==
    [pc |-> "idle", op |-> "none", title |-> None, description |-> None,
     createdAt |-> 0, id |-> 0, changed |-> FALSE, error |-> FALSE,
     wver |-> 0]

\* how an invocation ended: which action, its title, whether a store request
\* was sent, whether the store returned an error, whether the table changed
Ended(c, sent) ==
    [op |-> c.op, title |-> c.title, sent |-> sent, error |-> c.error,
     changed |-> c.changed]

NoProfile == [phase |-> "idle"]

\* ----------------------------------------------------------------- Init
Init ==
    /\ store = {}
    /\ nextId = 1
    /\ now = 0
    /\ cache = None
    /\ call = [p \in Procs |-> IdleCall]
    /\ calls = 0
    /\ ver = 0
    /\ doneVer = 0
    /\ created = {}
    /\ stats = [creates |-> 0]
    /\ last = Ended(IdleCall, FALSE)
    /\ profile = NoProfile

\* the clock advances
Tick ==
    /\ now < MaxTime
    /\ now' = now + 1
    /\ UNCHANGED <<store, nextId, cache, call, calls, ver, doneVer,
                   created, stats, last, profile>>

\* -------------------------------------------------------------- addNote
\* addNote(formData) up to its first store request: the client is created,
\* title and description are read, createdAt is stamped, and an absent or
\* empty title returns at once; otherwise the insert request is sent.
AddNoteGuardReturn(p, title, description) ==
    /\ call[p].pc = "idle"
    /\ calls < MaxCalls
    /\ Falsy(title)
    /\ calls' = calls + 1
    /\ last' = Ended([IdleCall EXCEPT !.op = "add", !.title = title], FALSE)
    /\ UNCHANGED <<store, nextId, now, cache, call, ver, doneVer, created,
                   stats, profile>>

AddNoteSendInsert(p, title, description) ==
    /\ call[p].pc = "idle"
    /\ calls < MaxCalls
    /\ ~Falsy(title)
    /\ calls' = calls + 1
    /\ call' = [call EXCEPT ![p] =
                  [IdleCall EXCEPT !.pc = "insert", !.op = "add",
                                   !.title = title,
                                   !.description = description,
                                   !.createdAt = now]]
    /\ UNCHANGED <<store, nextId, now, cache, ver, doneVer, created, stats,
                   last, profile>>

\* The store executes the insert: the row gets the next identifier.
StoreInsertOk(p) ==
    /\ call[p].pc = "insert"
    /\ LET note == NewNote(nextId, call[p].title, call[p].description,
                           call[p].createdAt)
       IN /\ store' = InsertRow(store, note)
          /\ created' = created \cup {note}
    /\ nextId' = nextId + 1
    /\ ver' = ver + 1
    /\ call' = [call EXCEPT ![p].pc = "revalidate", ![p].changed = TRUE,
                            ![p].wver = ver + 1]
    /\ UNCHANGED <<now, cache, calls, doneVer, stats, last,
                   profile>>

\* The store (or the network) fails the insert: the awaited result carries
\* the error, which addNote never reads.
StoreInsertError(p) ==
    /\ call[p].pc = "insert"
    /\ call' = [call EXCEPT ![p].pc = "revalidate", ![p].error = TRUE]
    /\ UNCHANGED <<store, nextId, now, cache, calls, ver, doneVer,
                   created, stats, last, profile>>

\* ------------------------------------------------------------ deleteNote
\* deleteNote(id) is invoked; createClient() is awaited and the delete
\* request is sent.
DeleteNoteCall(p, id) ==
    /\ call[p].pc = "idle"
    /\ calls < MaxCalls
    /\ calls' = calls + 1
    /\ call' = [call EXCEPT ![p] =
                  [IdleCall EXCEPT !.pc = "delete", !.op = "del", !.id = id]]
    /\ UNCHANGED <<store, nextId, now, cache, ver, doneVer,
                   created, stats, last, profile>>

\* The store executes the delete.
StoreDeleteOk(p) ==
    /\ call[p].pc = "delete"
    /\ store' = DeleteEq(store, call[p].id)
    /\ LET ch == store' # store
       IN /\ ver' = IF ch THEN ver + 1 ELSE ver
          /\ call' = [call EXCEPT ![p].pc = "revalidate", ![p].changed = ch,
                                  ![p].wver = IF ch THEN ver + 1 ELSE 0]
    /\ UNCHANGED <<nextId, now, cache, calls, doneVer, created,
                   stats, last, profile>>

\* The store fails the delete; deleteNote never reads the error.
StoreDeleteError(p) ==
    /\ call[p].pc = "delete"
    /\ call' = [call EXCEPT ![p].pc = "revalidate", ![p].error = TRUE]
    /\ UNCHANGED <<store, nextId, now, cache, calls, ver, doneVer,
                   created, stats, last, profile>>

\* ------------------------------------------- revalidatePath and return
\* Both actions end with revalidatePath('/notes') and return undefined.
RevalidateReturn(p) ==
    /\ call[p].pc = "revalidate"
    /\ cache' = Revalidated(cache)
    /\ doneVer' = IF call[p].wver > doneVer THEN call[p].wver ELSE doneVer
    /\ stats' = IF call[p].op = "add"
                THEN [creates |-> stats.creates + 1]
                ELSE stats
    /\ last' = Ended(call[p], TRUE)
    /\ call' = [call EXCEPT ![p] = IdleCall]
    /\ UNCHANGED <<store, nextId, now, calls, ver, created,
                   profile>>

\* ---------------------------------------------------------- NotesContent
Pending == \E p \in Procs : call[p].pc = "revalidate" /\ call[p].changed

\* /notes is requested while a cached render exists: it is served as is.
ListFromCache ==
    /\ cache # None
    /\ UNCHANGED vars

\* /notes is rendered: the select returns the rows.  The render is what the
\* request is served and what the framework keeps for the path.
ListSelectOk ==
    /\ cache = None
    /\ cache' = Some([view |-> Render(Some(store)), asOf |-> ver])
    /\ UNCHANGED <<store, nextId, now, call, calls, ver, doneVer, created,
                   stats, last, profile>>

\* /notes is rendered: the select fails, `data` is null, and NotesContent,
\* which reads only `data`, renders all the same.
ListSelectError ==
    /\ cache = None
    /\ cache' = Some([view |-> Render(None), asOf |-> ver])
    /\ UNCHANGED <<store, nextId, now, call, calls, ver, doneVer, created,
                   stats, last, profile>>

Next ==
    \/ Tick
    \/ \E p \in Procs, t \in Titles, d \in Descriptions :
          AddNoteGuardReturn(p, t, d)
    \/ \E p \in Procs, t \in Titles, d \in Descriptions :
          AddNoteSendInsert(p, t, d)
    \/ \E p \in Procs : StoreInsertOk(p)
    \/ \E p \in Procs : StoreInsertError(p)
    \/ \E p \in Procs, id \in Ids : DeleteNoteCall(p, id)
    \/ \E p \in Procs : StoreDeleteOk(p)
    \/ \E p \in Procs : StoreDeleteError(p)
    \/ \E p \in Procs : RevalidateReturn(p)
    \/ ListFromCache
    \/ ListSelectOk
    \/ ListSelectError

Spec == Init /\ [][Next]_vars

\* ------------------------------------------------------- ProfileContent
\* Strings the profile page takes apart are sequences of characters.
LowerChars == <<"a", "d", "l", "o">>
UpperChars == <<"A", "D", "L", "O">>

\* String.prototype.toUpperCase, one character
UpperChar(c) ==
    IF \E i \in 1 .. Len(LowerChars) : LowerChars[i] = c
    THEN UpperChars[CHOOSE i \in 1 .. Len(LowerChars) : LowerChars[i] = c]
    ELSE c

ToUpperCase(s) == [i \in 1 .. Len(s) |-> UpperChar(s[i])]

\* String.prototype.split(sep): the pieces between the separators
RECURSIVE SplitFrom(_, _, _)
SplitFrom(s, sep, piece) ==
    IF s = <<>> THEN <<piece>>
    ELSE IF Head(s) = sep THEN <<piece>> \o SplitFrom(Tail(s), sep, <<>>)
    ELSE SplitFrom(Tail(s), sep, Append(piece, Head(s)))

Split(s, sep) == SplitFrom(s, sep, <<>>)

\* pieces.map((n) => n[0]).join(''): n[0] of an empty piece is undefined,
\* which join renders as the empty string
RECURSIVE JoinFirsts(_)
JoinFirsts(pieces) ==
    IF pieces = <<>> THEN <<>>
    ELSE (IF Head(pieces) = <<>> THEN <<>> ELSE <<Head(pieces)[1]>>)
         \o JoinFirsts(Tail(pieces))

\* String.prototype.substring(0, n)
Substring0(s, n) == SubSeq(s, 1, IF Len(s) < n THEN Len(s) ELSE n)

getInitials(name) == Substring0(ToUpperCase(JoinFirsts(Split(name, " "))), 2)

\* a || b on string-or-undefined values: undefined and '' are falsy
FalsyText(v) == v = None \/ v = Some(<<>>)
OrElse(a, b) == IF FalsyText(a) THEN b ELSE a

\* what supabase.auth.getUser() can resolve to
FullNames == {None, Some(<<>>), Some(<<"a", "d", "a", " ", "l", "o">>)}
UserNames == {None, Some(<<"a", "l">>)}
Emails == {None, Some(<<"a", "@", "x">>)}
ProviderLists == {None, Some(<<"github">>)}
Users ==
    {None} \cup
    {Some([id |-> "u1", email |-> e, full_name |-> f, user_name |-> u,
           preferred_username |-> q, providers |-> pr])
       : e \in Emails, f \in FullNames, u \in UserNames, q \in UserNames,
         pr \in ProviderLists}
AuthErrors == {None, Some("AuthError")}

\* a guard that forgets the error: if (!user)
NotSignedInUserOnly(error, user) == user = None

\* the guard of ProfileContent: if (error || !user)
NotSignedIn(error, user) == error # None \/ user = None

\* the details extracted from the user and the fields the page renders
ProfileView(user) ==
    LET name == OrElse(OrElse(user.full_name, user.user_name),
                       Some(<<"U", "s", "e", "r">>))[1]
        email == OrElse(user.email, Some(<<>>))[1]
        preferredUsername == OrElse(user.preferred_username, Some(<<>>))[1]
        providers == IF user.providers = None THEN <<>>
                     ELSE user.providers[1]
    IN [name |-> name, email |-> email, initials |-> getInitials(name),
        subtitle |-> IF preferredUsername # <<>>
                     THEN <<"@">> \o preferredUsername ELSE email,
        providers |-> providers,
        username |-> IF preferredUsername # <<>>
                     THEN Some(preferredUsername) ELSE None,
        uid |-> user.id]

\* /protected/profile is requested and getUser() resolves
GetUser(user, error) ==
    /\ profile.phase # "request"
    /\ profile' = [phase |-> "request", user |-> user, error |-> error]
    /\ UNCHANGED notesVars

\* error or no user: redirect('/auth/login') throws, nothing below it runs
ProfileRedirect ==
    /\ profile.phase = "request"
    /\ NotSignedIn(profile.error, profile.user)
    /\ profile' = [phase |-> "redirect", user |-> profile.user,
                   error |-> profile.error, to |-> "/auth/login"]
    /\ UNCHANGED notesVars

\* otherwise the page is rendered from the user
ProfileRender ==
    /\ profile.phase = "request"
    /\ ~NotSignedIn(profile.error, profile.user)
    /\ profile' = [phase |-> "rendered", user |-> profile.user,
                   error |-> profile.error,
                   view |-> ProfileView(profile.user[1])]
    /\ UNCHANGED notesVars

NextProfile ==
    \/ \E u \in Users, e \in AuthErrors : GetUser(u, e)
    \/ ProfileRedirect
    \/ ProfileRender

SpecProfile == Init /\ [][NextProfile]_vars

\* ============================================================ properties
EmptyTitle(t) == t = None \/ t = Some("")
IdsOf(rows) == {n.id : n \in rows}
AllReturned == \A p \in Procs : call[p].pc = "idle"

\* C1: every addNote call with a non-empty title that completes has added
\* exactly one record: the record carries the submitted title and
\* description and an id no existing record has, and every record present
\* before is still present, unchanged.  (A call with a non-empty title
\* completes exactly when its insert request has been answered.)
C1_AddNoteAddsExactlyOne ==
    [][\A p \in Procs :
         (call[p].pc = "insert" /\ call'[p].pc = "revalidate") =>
           \E n \in store' :
              /\ n \notin store
              /\ store' = store \cup {n}
              /\ n.id \notin IdsOf(store)
              /\ n.id >= 1
              /\ n.title = call[p].title
              /\ n.description = call[p].description]_vars

\* C2: an addNote call whose title is absent or empty sends no insert
\* request, leaves the notes and the cached view as they were, and returns
\* normally.
C2_EmptyTitleNoEffect ==
    [][/\ \A p \in Procs :
            call'[p].op = "add" => ~EmptyTitle(call'[p].title)
       /\ (calls' = calls + 1 /\ call' = call) =>
            /\ store' = store
            /\ nextId' = nextId
            /\ cache' = cache
            /\ last'.op = "add"
            /\ EmptyTitle(last'.title)
            /\ ~last'.sent
            /\ ~last'.error]_vars

C2_Witness ==
    /\ last.op = "add"
    /\ last.title = Some("")
    /\ ~last.sent
    /\ store # {}
    /\ cache # None

\* C3: deleteNote(id) with id present removes exactly the record with that
\* id: the store afterwards is the store before minus that one record.
C3_DeleteRemovesExactlyThat ==
    [][\A p \in Procs :
         (/\ call[p].pc = "delete"
          /\ call'[p].pc = "revalidate"
          /\ call[p].id \in IdsOf(store)) =>
           /\ store' = {n \in store : n.id # call[p].id}
           /\ Cardinality(store') = Cardinality(store) - 1]_vars

\* C4: deleteNote(id) with id not present leaves the notes unchanged,
\* completes, and invalidates the cached notes view when it returns, as
\* every deleteNote does.
C4_DeleteAbsentNoChange ==
    [][\A p \in Procs :
         /\ (/\ call[p].pc = "delete"
             /\ call'[p] # call[p]
             /\ call[p].id \notin IdsOf(store)) =>
              (store' = store /\ call'[p].pc = "revalidate")
         /\ (/\ call[p].pc = "revalidate"
             /\ call[p].op = "del"
             /\ call'[p] # call[p]) =>
              (cache' = None /\ store' = store /\ call'[p].pc = "idle")]_vars

C4_Witness ==
    \E p \in Procs :
       /\ call[p].pc = "revalidate"
       /\ call[p].op = "del"
       /\ ~call[p].error
       /\ call[p].id \notin IdsOf(created)
       /\ store # {}
       /\ cache # None

C6_StoreFailurePropagates == ~(last.sent /\ last.error)

\* C7: with no notes the listing renders no cards and the placeholder, and
\* a render that is not behind a pending invalidation shows the placeholder
\* only when the store holds no notes.
C7_PlaceholderIffEmpty ==
    (cache # None /\ ~Pending) =>
       /\ (store = {} => cache[1].view.cards = {}
                         /\ cache[1].view.placeholder)
       /\ (cache[1].view.placeholder => store = {})

\* C8: notes are immutable: an id names the same title, description and
\* created_at in every state in which it exists, every stored title is
\* non-empty, a note appears only by an insert that gives it a fresh id, and
\* a note disappears only by a delete of its id.
C8_NotesImmutable ==
    [][/\ store' \subseteq created'
       /\ \A a, b \in created' : a.id = b.id => a = b
       /\ \A n \in store' : ~EmptyTitle(n.title)
       /\ \A n \in store' \ store :
             /\ n.id \notin IdsOf(created)
             /\ \E p \in Procs : /\ call[p].pc = "insert"
                                 /\ call'[p].pc = "revalidate"
                                 /\ n.title = call[p].title
                                 /\ n.description = call[p].description
                                 /\ n.created_at = call[p].createdAt
       /\ \A n \in store \ store' :
             \E p \in Procs : /\ call[p].pc = "delete"
                              /\ call'[p].pc = "revalidate"
                              /\ call[p].id = n.id]_vars

C8_Witness ==
    /\ last.op = "del"
    /\ last.changed
    /\ \E n \in created : n \notin store

\* C9: under any interleaving no note is lost or duplicated: a delete
\* removes at most the record with its id, no other step removes a record,
\* and once every invocation has returned each create with a non-empty
\* title has contributed exactly one record and a listing that returns rows
\* returns exactly the store content.
C9_NoLostNoDuplicate ==
    [][/\ \A n \in store \ store' :
             \E p \in Procs : /\ call[p].pc = "delete"
                              /\ call[p].id = n.id
                              /\ store \ store' = {n}
       /\ Cardinality(store' \ store) <= 1
       /\ AllReturned' =>
             /\ Cardinality(created') = stats'.creates
             /\ (cache' # None /\ cache'[1].view.data # None =>
                   cache'[1].view.data = Some(store'))]_vars

\* C10: the profile page renders user details only for a user returned
\* without error; an error or a missing user ends in the redirect to
\* /auth/login with nothing rendered.
C10_ProfileOnlyWhenSignedIn ==
    /\ profile.phase = "rendered" =>
         /\ profile.error = None
         /\ profile.user # None
         /\ profile.view.uid = profile.user[1].id
    /\ profile.phase = "redirect" =>
         /\ profile.error # None \/ profile.user = None
         /\ profile.to = "/auth/login"
         /\ "view" \notin DOMAIN profile
    /\ (profile.phase \in {"redirect", "rendered"}
        /\ (profile.error # None \/ profile.user = None)) =>
         profile.phase = "redirect"

C10_Witness ==
    /\ profile.phase = "redirect"
    /\ profile.user # None
    /\ profile.error # None

====
